---- MODULE Spec2Model ----
(***************************************************************************)
(* Model of case_study_generator.py: a Streamlit page whose script is      *)
(* re-executed top to bottom on every user interaction.  The state is the  *)
(* session store (st.session_state), the values of the form widgets, the   *)
(* position of the running script inside the analysis stage, and what the  *)
(* last script run rendered.  The search provider and the completion       *)
(* service are the environment: every call either raises, or returns one   *)
(* of a small set of replies.                                              *)
(*                                                                         *)
(* A text is a record [text, client, campaign]: text is the sequence of    *)
(* its tokens (single characters where the code looks at characters),      *)
(* client/campaign name the brief quoted in the query or prompt that       *)
(* produced it ("" for literals and for the empty string).                 *)
(***************************************************************************)
EXTENDS Integers, Sequences, FiniteSets, TLC

\* ---------------------------------------------------------------- bounds
\* searches of one session that return results
MaxHits == 1
\* failed calls that one analysis run recovers from
MaxFaults == 1
\* accepted form submissions of one session
MaxRuns == 2
\* user interactions of one session
MaxClicks == 4

\* ------------------------------------------------------------ python text
Txt(toks, client, campaign) == [text |-> toks, client |-> client, campaign |-> campaign]

Literal(s) == Txt(<<s>>, "", "")

EmptyStr == Txt(<<>>, "", "")

None == Txt(<<>>, "", "")

Truthy(t) == t.text # <<>>

EmptyDict == <<>>

DictGet(d, key, default) == IF key \in DOMAIN d THEN d[key] ELSE default

IsWs(c) == c \in {" ", "\n", "\t", "\r"}

IsDigit(c) == c \in {"0", "1", "2", "3", "4", "5", "6", "7", "8", "9"}

RECURSIVE SkipWs(_, _)
SkipWs(s, p) == IF p <= Len(s) /\ IsWs(s[p]) THEN SkipWs(s, p + 1) ELSE p

RECURSIVE SkipDigits(_, _)
SkipDigits(s, p) == IF p <= Len(s) /\ IsDigit(s[p]) THEN SkipDigits(s, p + 1) ELSE p

RECURSIVE RSkipWs(_, _)
RSkipWs(s, p) == IF p >= 1 /\ IsWs(s[p]) THEN RSkipWs(s, p - 1) ELSE p

\* str.strip(): drop leading and trailing whitespace
StripToks(s) ==
    LET a == SkipWs(s, 1)
        b == RSkipWs(s, Len(s))
    IN IF a > b THEN <<>> ELSE SubSeq(s, a, b)

Strip(t) ==
    LET s == StripToks(t.text)
    IN IF s = <<>> THEN EmptyStr ELSE Txt(s, t.client, t.campaign)

\* sep.join(list) for a list of texts produced from one brief
RECURSIVE JoinToks(_, _)
JoinToks(sep, list) ==
    IF list = <<>> THEN <<>>
    ELSE IF Len(list) = 1 THEN list[1].text
    ELSE list[1].text \o <<sep>> \o JoinToks(sep, Tail(list))

Join(sep, list) ==
    LET s == JoinToks(sep, list)
    IN IF s = <<>> THEN EmptyStr ELSE Txt(s, list[1].client, list[1].campaign)

\* "needle in text" for a needle that is one token of the text
Contains(t, needle) == \E i \in 1..Len(t.text) : t.text[i] = needle

\* ------------------------------------------------- style-name extraction
\* re.findall(r'^\s*\d+\.\s*(.+?)\s*-', rec, flags=re.MULTILINE)
AtLineStart(s, p) == p = 1 \/ s[p - 1] = "\n"

NoNewline(s, a, b) == \A i \in a..b : s[i] # "\n"

\* after a capture ending at e - 1: \s* then '-'
DashAfter(s, e) == LET d == SkipWs(s, e) IN d <= Len(s) /\ s[d] = "-"

\* lengths the lazy group (.+?) may take when it starts at q
CaptureLens(s, q) ==
    {n \in 1..(Len(s) - q + 1) : NoNewline(s, q, q + n - 1) /\ DashAfter(s, q + n)}

MinOf(S) == CHOOSE n \in S : \A m \in S : n <= m

MaxOf(S) == CHOOSE n \in S : \A m \in S : n >= m

\* start positions of the group: the greedy \s* after the dot gives back
\* characters only when the rest cannot match
CaptureStarts(s, c) == {q \in c..SkipWs(s, c) : CaptureLens(s, q) # {}}

\* <<first, last, end>> of the match that starts at line start p, or <<>>
MatchAt(s, p) ==
    LET a == SkipWs(s, p)
        b == SkipDigits(s, a)
    IN IF b > a /\ b <= Len(s) /\ s[b] = "." /\ CaptureStarts(s, b + 1) # {}
       THEN LET q == MaxOf(CaptureStarts(s, b + 1))
                n == MinOf(CaptureLens(s, q))
            IN <<q, q + n - 1, SkipWs(s, q + n) + 1>>
       ELSE <<>>

RECURSIVE FindAll(_, _)
FindAll(s, p) ==
    IF p > Len(s) THEN <<>>
    ELSE IF AtLineStart(s, p) /\ MatchAt(s, p) # <<>>
         THEN LET m == MatchAt(s, p)
              IN <<SubSeq(s, m[1], m[2])>> \o FindAll(s, m[3])
         ELSE FindAll(s, p + 1)

\* styles_found[:3]
Take(list, n) == SubSeq(list, 1, IF Len(list) < n THEN Len(list) ELSE n)

DefaultStyle == Literal("Comprehensive Data-Driven Report")

\* styles_found[:3] + ['Comprehensive Data-Driven Report']
StylesOf(rec) ==
    LET found == FindAll(rec.text, 1)
    IN [i \in 1..Len(Take(found, 3)) |-> Txt(found[i], rec.client, rec.campaign)]
       \o <<DefaultStyle>>

\* --------------------------------------------------- names and templates
Chars(name) ==
    IF name = "Sales Impact" THEN <<"S", "a", "l", "e", "s", " ", "I", "m", "p", "a", "c", "t">> ELSE
    IF name = "Market Share" THEN <<"M", "a", "r", "k", "e", "t", " ", "S", "h", "a", "r", "e">> ELSE
    IF name = "Brand Awareness" THEN <<"B", "r", "a", "n", "d", " ", "A", "w", "a", "r", "e", "n", "e", "s", "s">> ELSE
    IF name = "Customer Acquisition" THEN <<"C", "u", "s", "t", "o", "m", "e", "r", " ", "A", "c", "q", "u", "i", "s", "i", "t", "i", "o", "n">> ELSE
    IF name = "Digital Performance" THEN <<"D", "i", "g", "i", "t", "a", "l", " ", "P", "e", "r", "f", "o", "r", "m", "a", "n", "c", "e">> ELSE
    IF name = "Sales Revenue" THEN <<"S", "a", "l", "e", "s", " ", "R", "e", "v", "e", "n", "u", "e">> ELSE
    IF name = "Engagement Rate" THEN <<"E", "n", "g", "a", "g", "e", "m", "e", "n", "t", " ", "R", "a", "t", "e">> ELSE
    IF name = "Conversion Rate" THEN <<"C", "o", "n", "v", "e", "r", "s", "i", "o", "n", " ", "R", "a", "t", "e">> ELSE
    IF name = "ROI/ROAS" THEN <<"R", "O", "I", "/", "R", "O", "A", "S">> ELSE
    IF name = "Website Traffic" THEN <<"W", "e", "b", "s", "i", "t", "e", " ", "T", "r", "a", "f", "f", "i", "c">> ELSE
    <<>>

UpperCase == <<"A", "B", "C", "D", "E", "F", "G", "H", "I", "J", "K", "L", "M", "N", "O", "P", "Q", "R", "S", "T", "U", "V", "W", "X", "Y", "Z">>

LowerCase == <<"a", "b", "c", "d", "e", "f", "g", "h", "i", "j", "k", "l", "m", "n", "o", "p", "q", "r", "s", "t", "u", "v", "w", "x", "y", "z">>

\* str.lower()
Lower(s) ==
    [i \in 1..Len(s) |->
        IF \E k \in 1..Len(UpperCase) : UpperCase[k] = s[i]
        THEN LowerCase[CHOOSE k \in 1..Len(UpperCase) : UpperCase[k] = s[i]]
        ELSE s[i]]

\* "a in b" for strings
IsSubstring(a, b) ==
    \E k \in 0..(Len(b) - Len(a)) : \A i \in 1..Len(a) : b[k + i] = a[i]

\* the options of the 'Focus Metrics' multiselect
FocusOptions ==
    {"Sales Revenue", "Market Share", "Brand Awareness", "Customer Acquisition",
     "Engagement Rate", "Conversion Rate", "ROI/ROAS", "Website Traffic"}

\* the keys of metric_search_templates, in insertion order
metric_search_templates ==
    <<"Sales Impact", "Market Share", "Brand Awareness", "Customer Acquisition",
      "Digital Performance">>

\* every list of queries (context_queries, each template entry) has 3 items
QueriesPerList == 3

\* not target_metrics or any(tm.lower() in metric_category.lower() ...)
CategorySearched(metric_category, tms) ==
    \/ tms = {}
    \/ \E tm \in tms : IsSubstring(Lower(Chars(tm)), Lower(Chars(metric_category)))

\* index of the first searched category at or after position from, 0 if none
NextCategory(from, tms) ==
    LET S == {i \in from..Len(metric_search_templates) :
                 CategorySearched(metric_search_templates[i], tms)}
    IN IF S = {} THEN 0 ELSE MinOf(S)

\* ------------------------------------------------------------ the inputs
Briefs ==
    { [title |-> "Launch X", client |-> "Acme", campaign |-> "Spring",
       target_metrics |-> {}],
      [title |-> "Relaunch", client |-> "Bolt", campaign |-> "Summer",
       target_metrics |-> {"Market Share", "Engagement Rate"}],
      [title |-> "Relaunch", client |-> "Bolt", campaign |-> "Summer",
       target_metrics |-> {"ROI/ROAS"}],
      [title |-> "Relaunch", client |-> "", campaign |-> "Summer",
       target_metrics |-> {}],
      [title |-> "Launch X", client |-> "Acme", campaign |-> "",
       target_metrics |-> {"Market Share", "Engagement Rate"}] }

Feedbacks == { "", "make it shorter" }

\* --------------------------------------------------- the search provider
Query(client, campaign, topic) == [client |-> client, campaign |-> campaign, topic |-> topic]

\* a response of the provider: a transport failure, or the list data['organic']
SearchResponses(q) ==
    { [ok |-> FALSE, organic |-> <<>>],
      [ok |-> TRUE, organic |-> <<>>],
      [ok |-> TRUE, organic |-> <<[snippet |-> Txt(<<q.topic>>, q.client, q.campaign)]>>] }

\* the fetch with the error text returned in place of the empty snippet
fetch_returning_error(resp) ==
    IF resp.ok
    THEN Join("\n", [i \in 1..Len(Take(resp.organic, 5)) |-> resp.organic[i].snippet])
    ELSE Literal("Search error")

\* fetch_campaign_metrics: the second component of the returned pair
fetch_campaign_metrics(resp) ==
    IF resp.ok
    THEN Join("\n", [i \in 1..Len(Take(resp.organic, 5)) |-> resp.organic[i].snippet])
    ELSE EmptyStr

\* ------------------------------------------------ the completion service
\* model.generate_content(prompt): raises, or returns a text
Raised == [ok |-> FALSE, text |-> EmptyStr]

Reply(t) == [ok |-> TRUE, text |-> t]

ExtractionReplies(text) ==
    { Raised,
      Reply(Literal("No specific metrics found")),
      Reply(Txt(<<"METRIC: 20% - Q1", "\n">>, text.client, text.campaign)) }

extract_numeric_metrics(resp) ==
    IF resp.ok THEN Strip(resp.text) ELSE Literal("No specific metrics found")

ValidationReplies(client, campaign) ==
    { Raised, Reply(Txt(<<"VALIDATED METRICS:">>, client, campaign)) }

validate_and_enrich_metrics(resp) ==
    IF resp.ok THEN Strip(resp.text) ELSE Literal("Unable to validate metrics")

Line1 == <<"1", ".", " ", "A", " ", "-", " ", "x">>

Line2 == <<"2", ".", "B", "-">>

Line3 == <<" ", "3", ".", " ", "C", " ", ":", " ", "y">>

Line4 == <<"-", " ", "D", "-">>

Line5 == <<"4", ".", " ", "E", " ", "-">>

RecommendationTexts ==
    { <<"\n">>,
      Line3 \o <<"\n">> \o Line4 \o <<"\n">>,
      Line1 \o <<"\n">> \o Line2 \o <<"\n">> \o Line3 \o <<"\n">> \o Line4 \o <<"\n">> \o Line5 }

RecommendationReplies(client, campaign) ==
    {Raised} \cup {Reply(Txt(t, client, campaign)) : t \in RecommendationTexts}

ComposeReplies(client, campaign, style) ==
    { Raised,
      Reply(Txt(<<" ">>, client, campaign)),
      Reply(Txt(<<"# Case study", "\n">>, client, campaign)) }

RevisionReplies(original) ==
    { Raised,
      Reply(Txt(<<" ">>, original.client, original.campaign)),
      Reply(Txt(<<"# Revised case study">>, original.client, original.campaign)) }

\* ------------------------------------------------------------- the state
VARIABLES
    project_title, client_name, campaign_name, target_metrics,
    recommendations, styles, selected_style, case_study, case_library,
    web_context, detailed_metrics, campaign_timeline,
    pc, ci, qi, all_context, category_data, local_metrics, snippet,
    screen, radio_index, pisa_err,
    calls, hits, faults, runs, clicks

form == <<project_title, client_name, campaign_name, target_metrics>>

gathered == <<web_context, detailed_metrics, campaign_timeline>>

offered == <<recommendations, styles>>

document == <<case_study, case_library>>

locals == <<ci, qi, all_context, category_data, local_metrics, snippet>>

vars == <<form, gathered, offered, document, selected_style, pc, locals,
          screen, radio_index, pisa_err, calls, hits, faults, runs, clicks>>

Init ==
    /\ project_title = "" /\ client_name = "" /\ campaign_name = ""
    /\ target_metrics = {}
    /\ recommendations = EmptyStr
    /\ styles = <<>>
    /\ selected_style = None
    /\ case_study = EmptyStr
    /\ case_library = <<>>
    /\ web_context = EmptyStr
    /\ detailed_metrics = EmptyDict
    /\ campaign_timeline = EmptyStr
    /\ pc = "idle" /\ ci = 0 /\ qi = 0
    /\ all_context = <<>> /\ category_data = <<>>
    /\ local_metrics = EmptyDict /\ snippet = EmptyStr
    /\ screen = {"form"}
    /\ radio_index = 0
    /\ pisa_err = "none"
    /\ calls = {}
    /\ hits = 0 /\ faults = 0 /\ runs = 0 /\ clicks = 0

\* ------------------------------------------------- the rest of the script
\* st.radio: the index it returns.  choice is the option the user clicked in
\* this run (0: none); a radio whose options changed, or that the previous
\* run did not render, starts at its first option
RadioIndex(recs, stys, choice) ==
    IF ~Truthy(recs) THEN 0
    ELSE IF choice > 0 THEN choice
    ELSE IF radio_index > 0 /\ stys = styles THEN radio_index
    ELSE 1

\* selected_style after 'if recommendations: selected_style = st.radio(...)'
SelectedStyle(recs, stys, choice) ==
    IF Truthy(recs) THEN stys[RadioIndex(recs, stys, choice)] ELSE selected_style

\* what the script renders between the style section and the library
StyleWidgets(recs, sel) ==
    {"form"} \cup (IF Truthy(recs) THEN {"radio"} ELSE {})
             \cup (IF Truthy(sel) THEN {"generate"} ELSE {})

\* the document section rendered without its 'if case_study' guard
DocumentWidgetsUnguarded(cs) == {"final", "refine", "download_md", "pdf_button"}

DocumentWidgets(cs) ==
    IF Truthy(cs) THEN {"final", "refine", "download_md", "pdf_button"} ELSE {}

LibraryWidgets(lib) ==
    IF lib # <<>> THEN {"library", "export_button"} ELSE {}

\* the dashboard the analysis run shows before asking for recommendations
Dashboard(dm, tl) ==
    (IF dm # EmptyDict THEN {"dashboard"} ELSE {})
    \cup (IF Truthy(tl) THEN {"timeline"} ELSE {})

\* the script from the style section to its end, with no exception raised
RenderRest(recs, stys, cs, lib, choice, extra) ==
    /\ radio_index' = RadioIndex(recs, stys, choice)
    /\ selected_style' = SelectedStyle(recs, stys, choice)
    /\ screen' = StyleWidgets(recs, SelectedStyle(recs, stys, choice))
                 \cup DocumentWidgets(cs) \cup LibraryWidgets(lib) \cup extra

ResetLocals ==
    /\ ci' = 0 /\ qi' = 0 /\ all_context' = <<>> /\ category_data' = <<>>
    /\ local_metrics' = EmptyDict /\ snippet' = EmptyStr

\* ---------------------------------------------------- the prompts
RecommendationPrompt ==
    [ kind |-> "recommend", title |-> project_title,
      client |-> client_name, campaign |-> campaign_name,
      performance |-> DictGet(detailed_metrics, "validation",
                              Literal("Limited metrics available")),
      context |-> web_context ]

MetricsContext ==
    IF detailed_metrics # EmptyDict
    THEN [ validation |-> DictGet(detailed_metrics, "validation", EmptyStr),
           raw_metrics |-> DictGet(detailed_metrics, "raw_metrics", EmptyDict) ]
    ELSE EmptyDict

EnhancedPrompt(style) ==
    [ kind |-> "compose", style |-> style, title |-> project_title,
      client |-> client_name, campaign |-> campaign_name,
      metrics_context |-> MetricsContext,
      timeline |-> campaign_timeline, context |-> web_context ]

RevisionPrompt(feedback) ==
    [ kind |-> "revise", feedback |-> feedback, original |-> case_study,
      metrics |-> DictGet(detailed_metrics, "validation", EmptyStr) ]

\* the file name of the Markdown download
MarkdownFileName == <<project_title, "_case_study.md">>

\* ------------------------------------------------ the environment budget
SearchAllowed(resp) ==
    /\ resp.ok \/ faults < MaxFaults
    /\ resp.organic = <<>> \/ hits < MaxHits

ReplyAllowed(resp) == resp.ok \/ faults < MaxFaults

CountSearch(resp) ==
    /\ faults' = IF resp.ok THEN faults ELSE faults + 1
    /\ hits' = IF resp.organic # <<>> THEN hits + 1 ELSE hits

CountReply(resp) ==
    /\ faults' = IF resp.ok THEN faults ELSE faults + 1
    /\ hits' = hits

\* st.error(f"Search error: ...") inside fetch_campaign_metrics
SearchBanner(resp) == IF resp.ok THEN {} ELSE {"search_error"}

\* ------------------------------------------------------ form submission
\* the gate with the campaign name left out
AcceptedClientOnly(client, campaign) == client # ""

\* 'if go and client_name and campaign_name'
Accepted(client, campaign) == client # "" /\ campaign # ""

\* the user presses 'Analyze Campaign Impact' with the form filled as b
Submit(b) ==
    /\ pc = "idle"
    /\ clicks < MaxClicks
    /\ clicks' = clicks + 1
    /\ project_title' = b.title
    /\ client_name' = b.client
    /\ campaign_name' = b.campaign
    /\ target_metrics' = b.target_metrics
    /\ calls' = {}
    /\ pisa_err' = "none"
    /\ IF Accepted(b.client, b.campaign)
       THEN /\ runs < MaxRuns
            /\ runs' = runs + 1
            /\ pc' = "context"
            /\ qi' = 1
            /\ screen' = {"form"}
            /\ UNCHANGED <<ci, all_context, category_data, local_metrics, snippet,
                           radio_index, selected_style>>
       ELSE /\ RenderRest(recommendations, styles, case_study, case_library, 0, {})
            /\ UNCHANGED <<pc, locals, runs>>
    /\ UNCHANGED <<gathered, offered, document, hits, faults>>

\* --------------------------------------------------- the analysis stage
\* for query in context_queries: one iteration
FetchContext ==
    /\ pc = "context"
    /\ \E resp \in SearchResponses(Query(client_name, campaign_name, "context")) :
        /\ SearchAllowed(resp)
        /\ CountSearch(resp)
        /\ screen' = screen \cup SearchBanner(resp)
        /\ LET s == fetch_campaign_metrics(resp)
               ac == IF Truthy(s) THEN Append(all_context, s) ELSE all_context
               nc == NextCategory(1, target_metrics)
           IN /\ all_context' = ac
              /\ IF qi < QueriesPerList
                 THEN /\ qi' = qi + 1
                      /\ UNCHANGED <<pc, ci, web_context>>
                 ELSE /\ web_context' = Join("\n\n", ac)
                      /\ IF nc > 0
                         THEN pc' = "metrics" /\ ci' = nc /\ qi' = 1
                         ELSE pc' = "timeline" /\ ci' = 0 /\ qi' = 0
    /\ calls' = calls \cup {"search"}
    /\ UNCHANGED <<runs, clicks, form, detailed_metrics, campaign_timeline, offered, document,
                   selected_style, category_data, local_metrics, snippet,
                   radio_index, pisa_err>>

\* the end of one iteration of 'for query in queries', with category_data = cd
Advance(cd) ==
    IF qi < QueriesPerList
    THEN /\ pc' = "metrics" /\ qi' = qi + 1 /\ category_data' = cd
         /\ UNCHANGED <<ci, local_metrics>>
    ELSE LET lm == IF cd # <<>>
                   THEN local_metrics @@ (metric_search_templates[ci] :> cd)
                   ELSE local_metrics
             nc == NextCategory(ci + 1, target_metrics)
         IN /\ local_metrics' = lm
            /\ IF nc > 0
               THEN pc' = "metrics" /\ ci' = nc /\ qi' = 1 /\ category_data' = <<>>
               ELSE /\ pc' = IF lm # EmptyDict THEN "validate" ELSE "timeline"
                    /\ ci' = 0 /\ qi' = 0 /\ category_data' = cd

\* results, snippet = fetch_campaign_metrics(query, 8) for one metric query
FetchMetric ==
    /\ pc = "metrics"
    /\ \E resp \in SearchResponses(Query(client_name, campaign_name,
                                         metric_search_templates[ci])) :
        /\ SearchAllowed(resp)
        /\ CountSearch(resp)
        /\ screen' = screen \cup SearchBanner(resp)
        /\ LET s == fetch_campaign_metrics(resp)
           IN /\ snippet' = s
              /\ IF Truthy(s)
                 THEN pc' = "extract" /\ UNCHANGED <<ci, qi, category_data, local_metrics>>
                 ELSE Advance(category_data)
    \* the call, and the category whose query it carries
    /\ calls' = calls \cup {"search", metric_search_templates[ci]}
    /\ UNCHANGED <<runs, clicks, form, gathered, offered, document, selected_style, all_context,
                   radio_index, pisa_err>>

\* extracted = extract_numeric_metrics(snippet, metric_category)
Extract ==
    /\ pc = "extract"
    /\ \E resp \in ExtractionReplies(snippet) :
        /\ ReplyAllowed(resp)
        /\ CountReply(resp)
        /\ LET extracted == extract_numeric_metrics(resp)
           IN Advance(IF ~Contains(extracted, "No specific metrics found")
                      THEN Append(category_data, extracted)
                      ELSE category_data)
    /\ calls' = calls \cup {"extract"}
    /\ UNCHANGED <<runs, clicks, form, gathered, offered, document, selected_style, all_context,
                   snippet, screen, radio_index, pisa_err>>

\* 'if detailed_metrics:' validate and store
Validate ==
    /\ pc = "validate"
    /\ \E resp \in ValidationReplies(client_name, campaign_name) :
        /\ ReplyAllowed(resp)
        /\ CountReply(resp)
        /\ detailed_metrics' = [ raw_metrics |-> local_metrics,
                                 validation |-> validate_and_enrich_metrics(resp) ]
    /\ pc' = "timeline"
    /\ calls' = calls \cup {"validate"}
    /\ UNCHANGED <<runs, clicks, form, web_context, campaign_timeline, offered, document,
                   selected_style, locals, screen, radio_index, pisa_err>>

\* timeline_results, timeline_context = fetch_campaign_metrics(timeline_query)
FetchTimeline ==
    /\ pc = "timeline"
    /\ \E resp \in SearchResponses(Query(client_name, campaign_name, "timeline")) :
        /\ SearchAllowed(resp)
        /\ CountSearch(resp)
        /\ screen' = screen \cup SearchBanner(resp)
        /\ campaign_timeline' = fetch_campaign_metrics(resp)
    /\ pc' = "recommend"
    /\ calls' = calls \cup {"search"}
    /\ UNCHANGED <<runs, clicks, form, web_context, detailed_metrics, offered, document,
                   selected_style, locals, radio_index, pisa_err>>

\* the dashboard, the recommendation call, and the rest of the script
Recommend ==
    /\ pc = "recommend"
    /\ \E resp \in RecommendationReplies(client_name, campaign_name) :
        /\ hits' = hits
        /\ IF resp.ok
           THEN LET rec == Strip(resp.text)
                IN /\ recommendations' = rec
                   /\ styles' = StylesOf(rec)
                   /\ RenderRest(rec, StylesOf(rec), case_study, case_library, 0,
                                 (screen \ {"form"})
                                 \cup Dashboard(detailed_metrics, campaign_timeline))
           ELSE /\ screen' = screen \cup Dashboard(detailed_metrics, campaign_timeline)
                              \cup {"exception"}
                /\ radio_index' = 0
                /\ UNCHANGED <<offered, selected_style>>
    /\ pc' = "idle"
    /\ ResetLocals
    /\ faults' = 0
    /\ calls' = calls \cup {"recommend"}
    /\ UNCHANGED <<runs, clicks, form, gathered, document, pisa_err>>

\* ----------------------------------------- style selection and compose
\* the user picks option i of the radio: a rerun with nothing else pressed
Select(i) ==
    /\ pc = "idle"
    /\ clicks < MaxClicks
    /\ clicks' = clicks + 1
    /\ "radio" \in screen
    /\ i \in 1..Len(styles)
    /\ i # radio_index
    /\ RenderRest(recommendations, styles, case_study, case_library, i, {})
    /\ calls' = {}
    /\ pisa_err' = "none"
    /\ UNCHANGED <<runs, form, gathered, offered, document, pc, locals, hits, faults>>

\* the entry appended to case_library (the timestamp is left out)
LibraryEntry(style, output) ==
    [ title |-> project_title, style |-> style, case |-> output,
      metrics |-> detailed_metrics ]

\* the library overwritten with the new entry
LibraryReplace(lib, entry) == <<entry>>

\* case_library after st.session_state.case_library.append({...})
LibraryAppend(lib, entry) == Append(lib, entry)

\* the user presses 'Generate Data-Driven Case Study'
Generate ==
    /\ pc = "idle"
    /\ clicks < MaxClicks
    /\ clicks' = clicks + 1
    /\ "generate" \in screen
    /\ LET style == SelectedStyle(recommendations, styles, 0)
       IN \E resp \in ComposeReplies(EnhancedPrompt(style).client,
                                     EnhancedPrompt(style).campaign, style) :
            /\ IF resp.ok
               THEN LET output == Strip(resp.text)
                        lib == LibraryAppend(case_library, LibraryEntry(style, output))
                    IN /\ case_study' = output
                       /\ case_library' = lib
                       /\ RenderRest(recommendations, styles, output, lib, 0, {})
               ELSE /\ radio_index' = RadioIndex(recommendations, styles, 0)
                    /\ selected_style' = style
                    /\ screen' = StyleWidgets(recommendations, style) \cup {"exception"}
                    /\ UNCHANGED document
    /\ calls' = {"compose"}
    /\ pisa_err' = "none"
    /\ UNCHANGED <<runs, form, gathered, offered, pc, locals, hits, faults>>

\* ------------------------------------------------------------- refining
\* the refine that also files the revision in the library
StoreRevisionAppending(revised, lib) ==
    <<revised, Append(lib, LibraryEntry(selected_style, revised))>>

\* <<case_study, case_library>> after st.session_state.case_study = revised
StoreRevision(revised, lib) == <<revised, lib>>

\* the user presses 'Refine Case Study' with the feedback box holding feedback
Refine(feedback) ==
    /\ pc = "idle"
    /\ clicks < MaxClicks
    /\ clicks' = clicks + 1
    /\ "refine" \in screen
    /\ IF feedback # ""
       THEN \E resp \in RevisionReplies(RevisionPrompt(feedback).original) :
            /\ calls' = {"revise"}
            /\ IF resp.ok
               THEN LET revised == Strip(resp.text)
                        stored == StoreRevision(revised, case_library)
                    IN /\ case_study' = stored[1]
                       /\ case_library' = stored[2]
                       /\ RenderRest(recommendations, styles, stored[1],
                                     stored[2], 0, {})
               ELSE /\ radio_index' = RadioIndex(recommendations, styles, 0)
                    /\ selected_style' = SelectedStyle(recommendations, styles, 0)
                    /\ screen' = StyleWidgets(recommendations,
                                              SelectedStyle(recommendations, styles, 0))
                                 \cup {"final", "refine", "exception"}
                    /\ UNCHANGED document
       ELSE /\ RenderRest(recommendations, styles, case_study, case_library, 0, {})
            /\ calls' = {}
            /\ UNCHANGED document
    /\ pisa_err' = "none"
    /\ UNCHANGED <<runs, form, gathered, offered, pc, locals, hits, faults>>

\* --------------------------------------------------------------- export
\* the user presses 'Download Markdown'
DownloadMarkdown ==
    /\ pc = "idle"
    /\ clicks < MaxClicks
    /\ clicks' = clicks + 1
    /\ "download_md" \in screen
    /\ RenderRest(recommendations, styles, case_study, case_library, 0, {})
    /\ calls' = {}
    /\ pisa_err' = "none"
    /\ UNCHANGED <<runs, form, gathered, offered, document, pc, locals, hits, faults>>

\* pisa.CreatePDF(...): the conversion reports success or a rendering failure
PisaStatuses == {"ok", "err"}

\* what 'Generate Enhanced PDF' renders once create_enhanced_pdf returned
PdfWidgets(status) == {"pdf_download"}

\* the user presses 'Generate Enhanced PDF'
GeneratePdf ==
    /\ pc = "idle"
    /\ clicks < MaxClicks
    /\ clicks' = clicks + 1
    /\ "pdf_button" \in screen
    /\ \E status \in PisaStatuses :
        /\ pisa_err' = status
        /\ RenderRest(recommendations, styles, case_study, case_library, 0,
                      PdfWidgets(status))
    /\ calls' = {}
    /\ UNCHANGED <<runs, form, gathered, offered, document, pc, locals, hits, faults>>

\* export_data: the library entries whose metrics are not empty
ExportData(lib) == SelectSeq(lib, LAMBDA case : case.metrics # EmptyDict)

\* the user presses 'Export All Metrics Data'
ExportMetrics ==
    /\ pc = "idle"
    /\ clicks < MaxClicks
    /\ clicks' = clicks + 1
    /\ "export_button" \in screen
    /\ RenderRest(recommendations, styles, case_study, case_library, 0,
                  IF ExportData(case_library) # <<>>
                  THEN {"csv_download"} ELSE {})
    /\ calls' = {}
    /\ pisa_err' = "none"
    /\ UNCHANGED <<runs, form, gathered, offered, document, pc, locals, hits, faults>>

\* ---------------------------------------------------------- the program
Next ==
    \/ \E b \in Briefs : Submit(b)
    \/ FetchContext
    \/ FetchMetric
    \/ Extract
    \/ Validate
    \/ FetchTimeline
    \/ Recommend
    \/ \E i \in 1..Len(styles) : Select(i)
    \/ Generate
    \/ \E feedback \in Feedbacks : Refine(feedback)
    \/ DownloadMarkdown
    \/ GeneratePdf
    \/ ExportMetrics

Spec == Init /\ [][Next]_vars

TypeOK ==
    /\ pc \in {"idle", "context", "metrics", "extract", "validate", "timeline", "recommend"}
    /\ hits \in 0..MaxHits /\ faults \in 0..MaxFaults
    /\ Len(case_library) <= MaxClicks
    /\ clicks \in 0..MaxClicks /\ runs \in 0..MaxRuns

\* ================================================================ claims
BlockedSubmissionStep ==
    ((\E b \in Briefs : Submit(b)) /\ (client_name' = "" \/ campaign_name' = ""))
    => /\ pc' = "idle"
       /\ calls' = {}
       /\ hits' = hits
       /\ UNCHANGED <<web_context, detailed_metrics, campaign_timeline,
                      recommendations, styles>>

\* C1: a form submission whose client name or campaign name is empty
\* starts no analysis: the run issues no search call and no completion call,
\* and web_context, detailed_metrics, campaign_timeline, recommendations and
\* styles keep their values.
C1_BlockedSubmission == [][BlockedSubmissionStep]_vars

\* a blocked submission made after an analysis run stored its results
C1_Witness ==
    /\ pc = "idle"
    /\ project_title # ""
    /\ ~Accepted(client_name, campaign_name)
    /\ Truthy(recommendations)
    /\ detailed_metrics # EmptyDict
    /\ calls = {}

AnalysisSites == {"context", "metrics", "extract", "validate", "timeline"}

CallFailed == faults' = faults + 1

FailedContextFetch ==
    /\ all_context' = all_context
    /\ "search_error" \in screen'
    /\ IF qi < QueriesPerList
       THEN pc' = "context" /\ qi' = qi + 1
       ELSE pc' \in {"metrics", "timeline"} /\ web_context' = Join("\n\n", all_context)

FailedMetricFetch ==
    /\ snippet' = EmptyStr
    /\ "search_error" \in screen'
    /\ pc' \in {"metrics", "validate", "timeline"}
    /\ (qi < QueriesPerList)
       => (qi' = qi + 1 /\ ci' = ci /\ category_data' = category_data)

FailedExtraction ==
    /\ pc' \in {"metrics", "validate", "timeline"}
    /\ IF qi < QueriesPerList
       THEN qi' = qi + 1 /\ ci' = ci /\ category_data' = category_data
       ELSE DictGet(local_metrics', metric_search_templates[ci], <<>>) = category_data

FailedValidation ==
    /\ pc' = "timeline"
    /\ detailed_metrics'.validation = Literal("Unable to validate metrics")
    /\ detailed_metrics'.raw_metrics = local_metrics

FailedTimelineFetch ==
    /\ pc' = "recommend"
    /\ campaign_timeline' = EmptyStr
    /\ "search_error" \in screen'

AnalysisStep ==
    (pc \in AnalysisSites)
    => /\ pc' \in AnalysisSites \cup {"recommend"}
       /\ "exception" \notin screen'
       /\ (CallFailed /\ pc = "context") => FailedContextFetch
       /\ (CallFailed /\ pc = "metrics") => FailedMetricFetch
       /\ (CallFailed /\ pc = "extract") => FailedExtraction
       /\ (CallFailed /\ pc = "validate") => FailedValidation
       /\ (CallFailed /\ pc = "timeline") => FailedTimelineFetch

\* C3: a failed search call, extraction call or validation call does not
\* abort the analysis run: the failed fetch yields the empty snippet, the
\* failed extraction adds nothing, the failed validation stores its
\* placeholder, the next query or category follows, and the run goes on to
\* the recommendation call.
C3_FailuresDoNotAbort == [][AnalysisStep]_vars

\* a run that reaches the recommendation call after one of its calls failed
C3_Witness ==
    /\ pc = "recommend"
    /\ faults > 0

RefineStep ==
    /\ (Refine("make it shorter") /\ "exception" \notin screen')
       => /\ case_library' = case_library
          /\ \E resp \in RevisionReplies(case_study) :
                resp.ok /\ case_study' = Strip(resp.text)
    /\ Refine("")
       => /\ calls' = {}
          /\ UNCHANGED <<document, gathered, offered, selected_style>>

\* C4: a refine with feedback whose completion call returns stores the
\* revised text as case_study and leaves case_library as it was; a refine
\* with empty feedback issues no completion call and changes nothing in the
\* session store.
C4_RefineReplaces == [][RefineStep]_vars

\* a revised document is the current document and the library holds the draft
C4_Witness ==
    /\ pc = "idle"
    /\ calls = {"revise"}
    /\ "exception" \notin screen
    /\ Truthy(case_study)
    /\ Len(case_library) = 1
    /\ case_library[1].case # case_study

\* the analysis run has just ended with a reply of the recommendation call
AnalysisCompleted ==
    /\ pc = "idle"
    /\ "recommend" \in calls
    /\ "exception" \notin screen

\* C2: after every analysis run whose recommendation call returns a reply,
\* whatever the reply text, the style selection is offered, it holds between
\* one and four options, and its last option is the default style.
C2_StyleSelectionOffered ==
    AnalysisCompleted
    => /\ "radio" \in screen
       /\ Len(styles) \in 1..4
       /\ styles[Len(styles)] = DefaultStyle

\* no search of the current run returned a result, and none failed
NoResultsRun ==
    /\ "search" \in calls
    /\ "extract" \notin calls
    /\ "search_error" \notin screen
    /\ ~Truthy(web_context)

\* C5: in an analysis run in which every search returned zero results the
\* validator is not invoked, the dashboard shows no validation text, and the
\* performance data of the recommendation prompt and of the compose prompt is
\* the no-evidence marker, whatever earlier runs of the session produced.
C5_NoEvidenceNoJudgment ==
    /\ (pc = "recommend" /\ NoResultsRun /\ ~Truthy(campaign_timeline))
       => /\ "validate" \notin calls
          /\ "dashboard" \notin Dashboard(detailed_metrics, campaign_timeline)
          /\ RecommendationPrompt.performance = Literal("Limited metrics available")
    /\ (AnalysisCompleted /\ NoResultsRun /\ ~Truthy(campaign_timeline))
       => /\ "dashboard" \notin screen
          /\ MetricsContext = EmptyDict

\* C6: when the PDF conversion reports a rendering failure the failure is
\* shown and no PDF download is offered; a PDF download is offered only
\* after a conversion that reported success.
C6_PdfFailureSurfaced ==
    /\ (pisa_err = "err") => ("pdf_failed" \in screen /\ "pdf_download" \notin screen)
    /\ ("pdf_download" \in screen) => (pisa_err = "ok")

IsPrefix(a, b) == Len(a) <= Len(b) /\ SubSeq(b, 1, Len(a)) = a

LibraryStep ==
    /\ IsPrefix(case_library, case_library')
    /\ Len(case_library') <= Len(case_library) + 1
    /\ (Len(case_library') > Len(case_library)) => (calls' = {"compose"})
    /\ (Generate /\ "exception" \notin screen')
       => /\ Len(case_library') = Len(case_library) + 1
          /\ case_library'[Len(case_library')].case = case_study'

\* C7: the library is append-only: no step removes, changes or reorders an
\* entry, only a compose adds one, and a compose whose completion call
\* returns appends exactly one entry, whose document is the case_study that
\* compose stored.
C7_LibraryAppendOnly == [][LibraryStep]_vars

\* two composes, then a later action of another kind
C7_Witness ==
    /\ pc = "idle"
    /\ Len(case_library) = 2
    /\ calls # {"compose"}
    /\ clicks = MaxClicks

StageInv ==
    /\ (screen \cap {"final", "refine", "download_md", "pdf_button", "pdf_download"} # {})
       => Truthy(case_study)
    /\ ("generate" \in screen) => Truthy(selected_style)
    /\ Truthy(case_study) => case_library # <<>>
    /\ Truthy(recommendations) => Len(styles) >= 1

StageStep ==
    /\ (~Truthy(case_study) /\ Truthy(case_study'))
       => /\ calls' = {"compose"}
          /\ Len(case_library') = Len(case_library) + 1
    /\ (Len(case_library') > Len(case_library))
       => /\ "generate" \in screen
          /\ Truthy(selected_style')
          /\ case_library'[Len(case_library')].style = selected_style'
    /\ (selected_style' # selected_style)
       => /\ Truthy(recommendations')
          /\ "radio" \in screen'
          /\ \E i \in 1..Len(styles') : styles'[i] = selected_style'
    /\ (calls' = {"revise"}) => ("refine" \in screen /\ Truthy(case_study))
    /\ (pisa_err' # "none") => ("pdf_button" \in screen /\ Truthy(case_study))

\* C8: the stages come in order: case_study becomes non-empty only by a
\* compose, a compose happens only with a selected style, a style is selected
\* only from the styles list of a stored non-empty recommendation, and refine
\* and the document exports are available only while case_study is non-empty.
C8_StageOrder == []StageInv /\ [][StageStep]_vars

\* analysis, compose, refine and PDF export, in this order
C8_Witness ==
    /\ pc = "idle"
    /\ pisa_err = "ok"
    /\ Len(case_library) = 1
    /\ Truthy(case_study)
    /\ case_study # case_library[1].case

Origin(t) == <<t.client, t.campaign>>

\* C9: when the analysis run of a resubmitted brief completes, the styles
\* are offered and a document generated from the earlier brief is no longer
\* shown as the final case study, refinable or downloadable.
C9_ResubmissionRestarts ==
    (AnalysisCompleted /\ runs >= 2)
    => /\ Truthy(recommendations) => ("radio" \in screen)
       /\ (Truthy(case_study) /\ Origin(case_study) # <<client_name, campaign_name>>)
          => (screen \cap {"final", "refine", "download_md", "pdf_button"} = {})

\* the briefs the non-empty gathered artifacts come from
MetricItems(dm) ==
    LET raw == DictGet(dm, "raw_metrics", EmptyDict)
    IN UNION {{raw[c][i] : i \in 1..Len(raw[c])} : c \in DOMAIN raw}

Origins ==
    {Origin(t) : t \in {x \in {web_context, campaign_timeline, recommendations}
                             \cup MetricItems(detailed_metrics)
                             \cup {styles[i] : i \in 1..(Len(styles) - 1)} : Truthy(x)}}

\* C10: between runs, web_context, detailed_metrics, campaign_timeline,
\* recommendations and styles come from one form submission, so the compose
\* prompt embeds metrics, context and timeline of one client and campaign.
C10_ArtifactsConsistent ==
    (pc = "idle") => (Cardinality(Origins) <= 1)

\* the categories whose queries the current run issued
SearchedCategories ==
    {metric_search_templates[i] : i \in 1..Len(metric_search_templates)} \cap calls

\* the metric stage of the current run is over
MetricStageDone == pc \in {"validate", "timeline", "recommend"}

\* C11: focus-metric selection is honoured: after the metric stage of a run,
\* with an empty selection every category was searched; with a non-empty
\* selection at least one category was searched and for each selected focus
\* metric the queries of a category matching it were issued.
C11_FocusMetricsHonoured ==
    MetricStageDone
    => /\ (target_metrics = {})
          => (Cardinality(SearchedCategories) = Len(metric_search_templates))
       /\ (target_metrics # {})
          => /\ SearchedCategories # {}
             /\ \A tm \in target_metrics :
                   \E c \in SearchedCategories :
                      IsSubstring(Lower(Chars(tm)), Lower(Chars(c)))

====
